---------------------------- MODULE Spec2Model ----------------------------
(***************************************************************************)
(* The package build descriptor setup.py of space-agriculture-rl.          *)
(*                                                                         *)
(* The script imports setup and find_packages, evaluates the keyword       *)
(* arguments of the setup() call from top to bottom (packages is the       *)
(* result of find_packages() on the directory the script runs in) and      *)
(* calls setup() with them.                                                *)
(*                                                                         *)
(* A Python string that is parsed is a sequence of one-character strings;  *)
(* a string that is only carried along is a TLA+ string.                   *)
(***************************************************************************)
EXTENDS Naturals, Sequences, FiniteSets, TLC

VARIABLES
    pc,      \* position of the script: "import", "args", "call", "done"
    argi,    \* index in ArgOrder of the next keyword argument to evaluate
    cwd,     \* the directory tree the script runs in
    kwargs,  \* the keyword arguments evaluated so far
    dist     \* the attributes setup() received; NoDist before the call

vars == <<pc, argi, cwd, kwargs, dist>>

---------------------------------------------------------------------------
(* Bounds of the model.                                                    *)

\* The largest number of directories in a directory tree the script runs in.
MaxDirs == 3

---------------------------------------------------------------------------
(* The literals of setup.py.                                               *)

\* setup.py:4
name ==
    <<"s","p","a","c","e","-","a","g","r","i","c","u","l","t","u","r","e",
      "-","r","l">>

\* a descriptor that declares a version of two components
version_two_components ==
    <<"0",".","1">>

\* setup.py:5
version ==
    <<"0",".","1",".","0">>

\* setup.py:7
include_package_data == TRUE

\* a descriptor that pins numpy exactly instead of giving a minimum
install_requires_exact_pin ==
    << <<"s","t","r","e","a","m","l","i","t",">","=","1",".","3","1",".","0">>,
       <<"p","a","n","d","a","s",">","=","2",".","1",".","1">>,
       <<"n","u","m","p","y","=","=","1",".","2","6",".","1">>,
       <<"m","a","t","p","l","o","t","l","i","b",">","=","3",".","8",".","1">>,
       <<"t","e","n","s","o","r","f","l","o","w",">","=","2",".","1","5",".",
         "0">>,
       <<"k","a","g","g","l","e",">","=","1",".","5",".","1","6">>,
       <<"P","i","l","l","o","w",">","=","1","0",".","1",".","0">> >>

\* a descriptor that requires Pillow a second time, in lower case and with
\* another minimum, in the place of kaggle
install_requires_twice ==
    << <<"s","t","r","e","a","m","l","i","t",">","=","1",".","3","1",".","0">>,
       <<"p","a","n","d","a","s",">","=","2",".","1",".","1">>,
       <<"n","u","m","p","y",">","=","1",".","2","6",".","1">>,
       <<"m","a","t","p","l","o","t","l","i","b",">","=","3",".","8",".","1">>,
       <<"t","e","n","s","o","r","f","l","o","w",">","=","2",".","1","5",".",
         "0">>,
       <<"p","i","l","l","o","w",">","=","9",".","5",".","0">>,
       <<"P","i","l","l","o","w",">","=","1","0",".","1",".","0">> >>

\* setup.py:8-16
install_requires ==
    << <<"s","t","r","e","a","m","l","i","t",">","=","1",".","3","1",".","0">>,
       <<"p","a","n","d","a","s",">","=","2",".","1",".","1">>,
       <<"n","u","m","p","y",">","=","1",".","2","6",".","1">>,
       <<"m","a","t","p","l","o","t","l","i","b",">","=","3",".","8",".","1">>,
       <<"t","e","n","s","o","r","f","l","o","w",">","=","2",".","1","5",".",
         "0">>,
       <<"k","a","g","g","l","e",">","=","1",".","5",".","1","6">>,
       <<"P","i","l","l","o","w",">","=","1","0",".","1",".","0">> >>

\* setup.py:17
author == "Your Name"

\* setup.py:18
author_email == "your.email@example.com"

\* setup.py:19
description == "Space Agriculture Reinforcement Learning System"

\* setup.py:20
keywords == "space, agriculture, reinforcement learning, AI"

\* setup.py:21
url == "https://github.com/yourusername/space-agriculture-rl"

\* a descriptor whose last classifier is a licence instead of a topic
classifiers_license ==
    << <<"D","e","v","e","l","o","p","m","e","n","t"," ","S","t","a","t","u",
         "s"," ",":",":"," ","3"," ","-"," ","A","l","p","h","a">>,
       <<"I","n","t","e","n","d","e","d"," ","A","u","d","i","e","n","c","e",
         " ",":",":"," ","S","c","i","e","n","c","e","/","R","e","s","e","a",
         "r","c","h">>,
       <<"P","r","o","g","r","a","m","m","i","n","g"," ","L","a","n","g","u",
         "a","g","e"," ",":",":"," ","P","y","t","h","o","n"," ",":",":"," ",
         "3">>,
       <<"L","i","c","e","n","s","e"," ",":",":"," ","O","S","I"," ","A","p",
         "p","r","o","v","e","d"," ",":",":"," ","M","I","T"," ","L","i","c",
         "e","n","s","e">> >>

\* setup.py:22-27
classifiers ==
    << <<"D","e","v","e","l","o","p","m","e","n","t"," ","S","t","a","t","u",
         "s"," ",":",":"," ","3"," ","-"," ","A","l","p","h","a">>,
       <<"I","n","t","e","n","d","e","d"," ","A","u","d","i","e","n","c","e",
         " ",":",":"," ","S","c","i","e","n","c","e","/","R","e","s","e","a",
         "r","c","h">>,
       <<"P","r","o","g","r","a","m","m","i","n","g"," ","L","a","n","g","u",
         "a","g","e"," ",":",":"," ","P","y","t","h","o","n"," ",":",":"," ",
         "3">>,
       <<"T","o","p","i","c"," ",":",":"," ","S","c","i","e","n","t","i","f",
         "i","c","/","E","n","g","i","n","e","e","r","i","n","g"," ",":",":",
         " ","A","r","t","i","f","i","c","i","a","l"," ","I","n","t","e","l",
         "l","i","g","e","n","c","e">> >>

\* The keywords of the setup() call in the order Python evaluates their
\* values, setup.py:4-27.
ArgOrder ==
    <<"name", "version", "packages", "include_package_data",
      "install_requires", "author", "author_email", "description",
      "keywords", "url", "classifiers">>

---------------------------------------------------------------------------
(* The directory the script runs in.                                       *)
(*                                                                         *)
(* A path is the sequence of names from the directory of setup.py down; a  *)
(* tree is the set of its directories and the set of its files.            *)

setup_py == <<"s","e","t","u","p",".","p","y">>

init_py == <<"_","_","i","n","i","t","_","_",".","p","y">>

\* The repository as it is: setup.py at the top level and nothing else.
RepositoryTree == [dirs |-> {}, files |-> {<<setup_py>>}]

\* The names a directory of a tree may have: an identifier, and a name with
\* a dot in it (such as a version or an egg-info directory).
DirNames == {<<"r","l">>, <<"v",".","1">>}

\* The directories that may be added to the directory set ds.
NewDirs(ds) ==
    ({<<n>> : n \in DirNames}
        \cup {Append(d, n) : d \in ds, n \in DirNames}) \ ds

\* The sets of exactly n directories closed under taking the parent.
RECURSIVE DirSets(_)
DirSets(n) ==
    IF n = 0 THEN {{}}
    ELSE UNION {{ds \cup {d} : d \in NewDirs(ds)} : ds \in DirSets(n - 1)}

\* The trees the script may run in: setup.py, at most MaxDirs directories,
\* and an __init__.py in any of the directories.
Trees ==
    UNION {
        UNION {
            {[dirs |-> ds,
              files |-> {<<setup_py>>} \cup {Append(d, init_py) : d \in ps}]
                : ps \in SUBSET ds}
            : ds \in DirSets(n)}
        : n \in 0..MaxDirs}

---------------------------------------------------------------------------
(* find_packages(), as the script calls it: where = ".", every package     *)
(* included, none excluded.                                                *)

\* The subdirectories of root in tree; root = <<>> is the directory of
\* setup.py.
SubDirs(tree, root) ==
    {d \in tree.dirs : Len(d) = Len(root) + 1 /\ SubSeq(d, 1, Len(root)) = root}

HasDot(s) == \E i \in 1..Len(s) : s[i] = "."

\* A directory looks like a package when it holds a file __init__.py.
looks_like_package(tree, d) == Append(d, init_py) \in tree.files

\* The walk from root: a subdirectory whose name has a dot or that does not
\* look like a package is skipped together with everything below it; any
\* other subdirectory is a package, and the walk goes on below it.
RECURSIVE WalkPackages(_, _)
WalkPackages(tree, root) ==
    UNION {
        IF HasDot(d[Len(d)]) \/ ~looks_like_package(tree, d)
        THEN {}
        ELSE {d} \cup WalkPackages(tree, d)
        : d \in SubDirs(tree, root)}

\* The packages found in tree, each as its path (the dotted name a.b is the
\* path <<a, b>>).  The order of the list Python returns is the order in
\* which the operating system lists directories, and is left out.
find_packages(tree) == WalkPackages(tree, <<>>)

\* a descriptor that lists a package by hand instead of looking for it
packages_by_hand(tree) == {<< <<"r","l">> >>}

\* setup.py:6
packages(tree) == find_packages(tree)

---------------------------------------------------------------------------
(* The script.                                                             *)

NoDist == [called |-> FALSE]

\* The value of the keyword argument k that is a literal.
Literal(k) ==
    CASE k = "name" -> name
      [] k = "version" -> version
      [] k = "include_package_data" -> include_package_data
      [] k = "install_requires" -> install_requires
      [] k = "author" -> author
      [] k = "author_email" -> author_email
      [] k = "description" -> description
      [] k = "keywords" -> keywords
      [] k = "url" -> url
      [] k = "classifiers" -> classifiers

Init ==
    /\ pc = "import"
    /\ argi = 1
    /\ cwd \in Trees
    /\ kwargs = <<>>
    /\ dist = NoDist

\* setup.py:1
Import ==
    /\ pc = "import"
    /\ pc' = "args"
    /\ UNCHANGED <<argi, cwd, kwargs, dist>>

\* The step after the argument at argi.
AfterArg ==
    /\ argi' = argi + 1
    /\ pc' = IF argi = Len(ArgOrder) THEN "call" ELSE "args"

\* A keyword argument whose value is a literal.
EvalLiteral ==
    /\ pc = "args"
    /\ ArgOrder[argi] # "packages"
    /\ kwargs' = kwargs @@ (ArgOrder[argi] :> Literal(ArgOrder[argi]))
    /\ AfterArg
    /\ UNCHANGED <<cwd, dist>>

\* packages=find_packages()
EvalPackages ==
    /\ pc = "args"
    /\ ArgOrder[argi] = "packages"
    /\ kwargs' = kwargs @@ ("packages" :> packages(cwd))
    /\ AfterArg
    /\ UNCHANGED <<cwd, dist>>

\* setup(**kwargs): the distribution's attributes are the keyword arguments.
setup ==
    /\ pc = "call"
    /\ dist' = [called |-> TRUE, attrs |-> kwargs]
    /\ pc' = "done"
    /\ UNCHANGED <<argi, cwd, kwargs>>

Next == Import \/ EvalLiteral \/ EvalPackages \/ setup

Spec == Init /\ [][Next]_vars

---------------------------------------------------------------------------
(* Reading the strings of the descriptor.                                  *)

Digits == <<"0","1","2","3","4","5","6","7","8","9">>

LowerCase ==
    <<"a","b","c","d","e","f","g","h","i","j","k","l","m","n","o","p","q",
      "r","s","t","u","v","w","x","y","z">>

UpperCase ==
    <<"A","B","C","D","E","F","G","H","I","J","K","L","M","N","O","P","Q",
      "R","S","T","U","V","W","X","Y","Z">>

Range(s) == {s[i] : i \in 1..Len(s)}

IsDigit(c) == c \in Range(Digits)

\* The value of the digit c.
DigitVal(c) == (CHOOSE i \in 1..Len(Digits) : Digits[i] = c) - 1

\* The lower-case form of the character c.
LowerChar(c) ==
    IF c \in Range(UpperCase)
    THEN LowerCase[CHOOSE i \in 1..Len(UpperCase) : UpperCase[i] = c]
    ELSE c

\* The lower-case form of the string s.
Lower(s) == [i \in 1..Len(s) |-> LowerChar(s[i])]

\* Whether sep occurs in s at position i.
OccursAt(s, sep, i) ==
    /\ i + Len(sep) - 1 <= Len(s)
    /\ SubSeq(s, i, i + Len(sep) - 1) = sep

\* The pieces of s between the occurrences of sep, as str.split(sep) gives
\* them.
RECURSIVE Split(_, _)
Split(s, sep) ==
    IF \E i \in 1..Len(s) : OccursAt(s, sep, i)
    THEN LET i == CHOOSE k \in 1..Len(s) :
                      /\ OccursAt(s, sep, k)
                      /\ \A j \in 1..(k - 1) : ~OccursAt(s, sep, j)
         IN  <<SubSeq(s, 1, i - 1)>>
                 \o Split(SubSeq(s, i + Len(sep), Len(s)), sep)
    ELSE <<s>>

\* A string of one or more digits.
IsNumber(s) == Len(s) >= 1 /\ \A i \in 1..Len(s) : IsDigit(s[i])

\* A numeric identifier of a semantic version: a number without leading
\* zeros.
IsNumericIdentifier(s) == IsNumber(s) /\ (Len(s) = 1 \/ s[1] # "0")

\* The number a string of digits denotes.
RECURSIVE ToNat(_)
ToNat(s) ==
    IF Len(s) = 0 THEN 0
    ELSE 10 * ToNat(SubSeq(s, 1, Len(s) - 1)) + DigitVal(s[Len(s)])

\* A semantic version MAJOR.MINOR.PATCH: three numeric identifiers and
\* nothing else (a pre-release "-..." or a build "+..." is not a digit).
IsSemVer(s) ==
    LET parts == Split(s, <<".">>)
    IN  Len(parts) = 3 /\ \A i \in 1..3 : IsNumericIdentifier(parts[i])

SemVerParts(s) ==
    LET parts == Split(s, <<".">>)
    IN  [i \in 1..Len(parts) |-> ToNat(parts[i])]

\* The characters of a distribution name in a requirement.
IsNameChar(c) ==
    \/ c \in Range(LowerCase) \/ c \in Range(UpperCase) \/ IsDigit(c)
    \/ c \in {"-", "_", "."}

\* The length of the distribution name a requirement starts with.
NameLen(r) ==
    CHOOSE n \in 0..Len(r) :
        /\ \A i \in 1..n : IsNameChar(r[i])
        /\ n < Len(r) => ~IsNameChar(r[n + 1])

\* The distribution name of the requirement r, and what follows it.
ReqName(r) == SubSeq(r, 1, NameLen(r))

ReqSpecifier(r) == SubSeq(r, NameLen(r) + 1, Len(r))

\* The requirement is name>=X.Y.Z: a name, the operator >=, three numbers
\* separated by dots, and nothing more (no second clause after a comma, no
\* other operator, no missing specifier).
IsMinimumOnly(r) ==
    LET sp == ReqSpecifier(r)
        parts == Split(SubSeq(sp, 3, Len(sp)), <<".">>)
    IN  /\ Len(ReqName(r)) >= 1
        /\ Len(sp) >= 2
        /\ SubSeq(sp, 1, 2) = <<">", "=">>
        /\ Len(parts) = 3
        /\ \A i \in 1..3 : IsNumber(parts[i])

\* The top-level category of a trove classifier: what precedes the first
\* " :: ".
TopCategory(c) == Split(c, <<" ", ":", ":", " ">>)[1]

---------------------------------------------------------------------------
(* The claims.                                                             *)

RequiredNames ==
    { <<"s","t","r","e","a","m","l","i","t">>,
      <<"p","a","n","d","a","s">>,
      <<"n","u","m","p","y">>,
      <<"m","a","t","p","l","o","t","l","i","b">>,
      <<"t","e","n","s","o","r","f","l","o","w">>,
      <<"k","a","g","g","l","e">>,
      <<"P","i","l","l","o","w">> }

\* C1: the install_requires list setup() receives is non-empty and holds
\* exactly seven requirements, one for each of streamlit, pandas, numpy,
\* matplotlib, tensorflow, kaggle and Pillow, and every entry is of the form
\* name>=X.Y.Z: a minimum version and no upper bound, exact pin or missing
\* constraint.
C1_SevenMinimumRequirements ==
    dist.called =>
        LET reqs == dist.attrs.install_requires
        IN  /\ Len(reqs) # 0
            /\ Len(reqs) = 7
            /\ {ReqName(reqs[i]) : i \in 1..Len(reqs)} = RequiredNames
            /\ \A i \in 1..Len(reqs) : IsMinimumOnly(reqs[i])

C1_Witness ==
    /\ pc = "done"
    /\ dist.called
    /\ Len(dist.attrs.install_requires) = 7
    /\ ReqSpecifier(dist.attrs.install_requires[1])
           = <<">","=","1",".","3","1",".","0">>

\* C2: the descriptor declares the name "space-agriculture-rl" and the
\* version "0.1.0", and the version is a semantic version: exactly three
\* dot-separated numbers without leading zeros (major 0, minor 1, patch 0),
\* no pre-release and no build suffix.
C2_NameAndSemanticVersion ==
    dist.called =>
        /\ dist.attrs.name
               = <<"s","p","a","c","e","-","a","g","r","i","c","u","l","t",
                   "u","r","e","-","r","l">>
        /\ dist.attrs.version = <<"0",".","1",".","0">>
        /\ IsSemVer(dist.attrs.version)
        /\ SemVerParts(dist.attrs.version) = <<0, 1, 0>>

C2_Witness ==
    /\ pc = "done"
    /\ dist.called
    /\ Len(Split(dist.attrs.version, <<".">>)) = 3
    /\ Len(dist.attrs.name) = 20

TopCategories ==
    { <<"D","e","v","e","l","o","p","m","e","n","t"," ","S","t","a","t","u",
        "s">>,
      <<"I","n","t","e","n","d","e","d"," ","A","u","d","i","e","n","c","e">>,
      <<"P","r","o","g","r","a","m","m","i","n","g"," ","L","a","n","g","u",
        "a","g","e">>,
      <<"T","o","p","i","c">> }

\* C3: the classifiers list setup() receives has exactly four entries,
\* exactly one in each of the top-level categories Development Status,
\* Intended Audience, Programming Language and Topic, and none in any other
\* category.
C3_FourClassifierCategories ==
    dist.called =>
        LET cs == dist.attrs.classifiers
        IN  /\ Len(cs) = 4
            /\ \A t \in TopCategories :
                   Cardinality({i \in 1..Len(cs) : TopCategory(cs[i]) = t}) = 1
            /\ \A i \in 1..Len(cs) : TopCategory(cs[i]) \in TopCategories

C3_Witness ==
    /\ pc = "done"
    /\ dist.called
    /\ TopCategory(dist.attrs.classifiers[4]) = <<"T","o","p","i","c">>
    /\ Len(Split(dist.attrs.classifiers[4], <<" ", ":", ":", " ">>)) = 3

\* No directory of the tree holds an __init__.py.
NoInitPy(tree) == \A d \in tree.dirs : Append(d, init_py) \notin tree.files

\* C4: when the directory of setup.py has no directory holding an
\* __init__.py, as in the repository, whose only file is the top-level
\* setup.py, packages=find_packages() is empty, and the distribution has no
\* package and no module.
C4_NoPackages ==
    /\ NoInitPy(RepositoryTree)
    /\ (dist.called /\ NoInitPy(cwd)) =>
           /\ dist.attrs.packages = {}
           /\ "py_modules" \notin DOMAIN dist.attrs

C4_Witness ==
    /\ pc = "done"
    /\ dist.called
    /\ cwd = RepositoryTree
    /\ dist.attrs.packages = {}

\* C5: the distribution names in install_requires are pairwise distinct
\* when compared without regard to case: no library is required twice.
C5_DistinctRequirementNames ==
    dist.called =>
        LET reqs == dist.attrs.install_requires
        IN  \A i, j \in 1..Len(reqs) :
                i # j => Lower(ReqName(reqs[i])) # Lower(ReqName(reqs[j]))

C5_Witness ==
    /\ pc = "done"
    /\ dist.called
    /\ Lower(ReqName(dist.attrs.install_requires[7]))
           = <<"p","i","l","l","o","w">>
    /\ ReqName(dist.attrs.install_requires[7]) # <<"p","i","l","l","o","w">>

===========================================================================
